---- MODULE Spec2Model ----
(***************************************************************************)
(* Model of polymarket-board: the adaptive table layout (dashboard.py,     *)
(* calc_layout / build_table), the market data client and the per-field    *)
(* parsers (dashboard.py fetch_events / top_contenders / fmt_delta,        *)
(* server.py _all_contenders / fmt_delta_plain) and the TTL cache with its *)
(* lock (server.py get_events).                                            *)
(*                                                                         *)
(* Three specifications share the module:                                  *)
(*   SpecLayout  calc_layout and build_table over every terminal width     *)
(*   SpecParse   fetch_events and the field parsers over upstream outputs  *)
(*   SpecCache   concurrent get_events callers on the asyncio event loop   *)
(***************************************************************************)
EXTENDS Integers, Sequences, FiniteSets, TLC

VARIABLES
    \* ---- SpecLayout
    width,      \* console.width handed to calc_layout / build_table
    lpc,        \* "start" | "layout" (calc_layout returned) | "table" (build_table ran)
    lay,        \* the tuple calc_layout returned: [n, name_w, event_w]
    cols,       \* build_table: the width= of every column added, in order
    \* ---- SpecParse
    ppc,        \* "start" | the function that was called
    resp,       \* what the upstream tool does when fetch_events runs it
    plimit,     \* the limit fetch_events is called with
    event,      \* the event handed to top_contenders / _all_contenders
    delta,      \* the value handed to fmt_delta / fmt_delta_plain
    evOut,      \* outcome of fetch_events: [exc, val]
    contOut,    \* outcome of top_contenders / _all_contenders: [exc, val]
    deltaOut,   \* outcome of fmt_delta / fmt_delta_plain: [exc, val]
    \* ---- SpecCache
    clock,      \* time.monotonic()
    cache,      \* _cache: limit -> [present, ts, data, src]
    locked,     \* _cache_lock._locked
    waiters,    \* _cache_lock._waiters, in arrival order
    cpc,        \* per call: "idle" | "waiting" | "fetching" | "done" | "raised"
    climit,     \* per call: its limit argument
    cnow,       \* per call: its local now
    cret,       \* per call: what it returned, [data, src]
    \* history of each call, read only by the properties
    fetched,    \* the call invoked fetch_events
    hitAge,     \* on a cache hit: clock - ts when the entry was read, else -1
    fresh,      \* src of the entry for its key that was younger than the TTL
                \* when the call started, else 0
    inflight,   \* the call whose fetch for the same key was running when the
                \* call started, else 0
    active      \* the calls for the same key in progress when the call started

layoutVars == <<width, lpc, lay, cols>>
parseVars == <<ppc, resp, plimit, event, delta, evOut, contOut, deltaOut>>
cacheVars == <<clock, cache, locked, waiters, cpc, climit, cnow, cret,
               fetched, hitAge, fresh, inflight, active>>
vars == <<layoutVars, parseVars, cacheVars>>

----------------------------------------------------------------------------
(* dashboard.py: constants                                                 *)

TOP_N_CONTENDERS == 5
PRICE_W == 5
DELTA_W == 7
FIXED_COLS_W == 3 + 35 + 9 + 8
MIN_NAME_W == 8
EVENT_W == 35
DEFAULT_WIDTH == 200

\* Largest console width explored.
MaxWidth == 260

----------------------------------------------------------------------------
(* dashboard.py calc_layout                                                *)

\* def total_width(n, name_w)
total_width(n, name_w) ==
    LET seps == 3 + n * 3
    IN  FIXED_COLS_W + n * (name_w + PRICE_W + DELTA_W) + seps + 2

\* for k in range(TOP_N_CONTENDERS, 0, -1): the first k that fits, 0 when the
\* loop ends without a break.
RECURSIVE search_count(_, _)
search_count(k, w) ==
    IF k = 0 THEN 0
    ELSE IF total_width(k, MIN_NAME_W) <= w THEN k
    ELSE search_count(k - 1, w)

\* Mutant: the search runs upwards and stops at the first count that fits.
RECURSIVE search_count_up(_, _)
search_count_up(k, w) ==
    IF k > TOP_N_CONTENDERS THEN 0
    ELSE IF total_width(k, MIN_NAME_W) <= w THEN k
    ELSE search_count_up(k + 1, w)

calc_layout_smallest(w) ==
    LET n0 == search_count_up(1, w)
        n  == IF n0 = 0 THEN 1 ELSE n0
        leftover == w - total_width(n, MIN_NAME_W)
    IN  [n |-> n, name_w |-> MIN_NAME_W + (leftover \div n), event_w |-> EVENT_W]

\* Mutant: the leftover is rounded up when it is shared out.
calc_layout_ceil(w) ==
    LET n0 == search_count(TOP_N_CONTENDERS, w)
        n  == IF n0 = 0 THEN 1 ELSE n0
        leftover == w - total_width(n, MIN_NAME_W)
    IN  [n |-> n, name_w |-> MIN_NAME_W + ((leftover + n - 1) \div n),
         event_w |-> EVENT_W]

\* Python's // is floor division, as is \div.
calc_layout(w) ==
    LET n0 == search_count(TOP_N_CONTENDERS, w)
        n  == IF n0 = 0 THEN 1 ELSE n0
        leftover == w - total_width(n, MIN_NAME_W)
    IN  [n |-> n, name_w |-> MIN_NAME_W + (leftover \div n), event_w |-> EVENT_W]

\* build_table: width = console.width or 200, then the column widths handed
\* to table.add_column: the four fixed columns, then name / price / delta per
\* contender.
RECURSIVE contender_cols(_, _)
contender_cols(i, name_w) ==
    IF i = 0 THEN <<>>
    ELSE <<name_w, 5, 7>> \o contender_cols(i - 1, name_w)

build_table_width(w) == IF w = 0 THEN DEFAULT_WIDTH ELSE w

build_table_cols(l) == <<3, l.event_w, 9, 8>> \o contender_cols(l.n, l.name_w)

----------------------------------------------------------------------------
(* Python values.  A value is a record tagged by its type.  Floats are     *)
(* fixed-point integers in units of 1/Scale, which is exact for every      *)
(* literal used below.  A dict key that is missing is the value Absent;    *)
(* dict.get turns it into None.                                            *)

Scale == 10000

None == [t |-> "none"]
Absent == [t |-> "absent"]
Num(n) == [t |-> "num", n |-> n]
Str(s) == [t |-> "str", s |-> s]
List(xs) == [t |-> "list", xs |-> xs]

Ok(v) == [exc |-> "none", val |-> v]
Raise(e) == [exc |-> e, val |-> None]

\* d.get(key)
Get(v) == IF v.t = "absent" THEN None ELSE v

\* bool(v)
Truthy(v) ==
    CASE v.t = "none" -> FALSE
      [] v.t = "num"  -> v.n # 0
      [] v.t = "str"  -> v.s # ""
      [] v.t = "list" -> v.xs # <<>>

\* a or b
Or(a, b) == IF Truthy(a) THEN a ELSE b

\* float(s) for a str: the literals the inputs below use; any other text used
\* below is not a number.
FloatOfStr(s) ==
    CASE s = "300"    -> Ok(300 * Scale)
      [] s = "20"     -> Ok(20 * Scale)
      [] s = "7"      -> Ok(7 * Scale)
      [] s = "0.94"   -> Ok(9400)
      [] s = "0.5"    -> Ok(5000)
      [] s = "0.06"   -> Ok(600)
      [] s = "0.01"   -> Ok(100)
      [] s = "0.0004" -> Ok(4)
      [] s = "-0.02"  -> Ok(-200)
      [] OTHER        -> Raise("ValueError")

\* float(v)
PyFloat(v) ==
    CASE v.t = "num" -> Ok(v.n)
      [] v.t = "str" -> FloatOfStr(v.s)
      [] OTHER       -> Raise("TypeError")

\* json.loads(v): a TypeError unless v is a str; the texts the inputs below
\* use, any other text being malformed JSON.
JsonLoads(v) ==
    IF v.t # "str" THEN Raise("TypeError")
    ELSE CASE v.s = "[0,1]"                -> Ok(List(<<Num(0), Num(Scale)>>))
           [] v.s = "[\"0.94\", \"0.06\"]" -> Ok(List(<<Str("0.94"), Str("0.06")>>))
           [] v.s = "[\"0.5\", \"0.5\"]"   -> Ok(List(<<Str("0.5"), Str("0.5")>>))
           [] v.s = "[\"0.06\", \"0.94\"]" -> Ok(List(<<Str("0.06"), Str("0.94")>>))
           [] v.s = "[]"                   -> Ok(List(<<>>))
           [] v.s = "[\"abc\"]"            -> Ok(List(<<Str("abc")>>))
           [] v.s = "[null]"               -> Ok(List(<<None>>))
           [] v.s = "0.5"                  -> Ok(Num(5000))
           [] OTHER                        -> Raise("JSONDecodeError")

\* v[0]
Index0(v) ==
    CASE v.t = "list" -> IF v.xs = <<>> THEN Raise("IndexError") ELSE Ok(v.xs[1])
      [] OTHER        -> Raise("TypeError")

Min(a, b) == IF a <= b THEN a ELSE b
Max(a, b) == IF a >= b THEN a ELSE b

\* xs[:n] for n >= 0
Take(xs, n) == SubSeq(xs, 1, Min(n, Len(xs)))

\* list.sort(key=..., reverse=True) once every key is computed: stable, so
\* equal keys keep their order.  items is a sequence of [key, item].
RECURSIVE InsertDesc(_, _)
InsertDesc(sorted, x) ==
    IF sorted = <<>> THEN <<x>>
    ELSE IF Head(sorted).key >= x.key
         THEN <<Head(sorted)>> \o InsertDesc(Tail(sorted), x)
         ELSE <<x>> \o sorted

RECURSIVE SortDesc(_)
SortDesc(items) ==
    IF items = <<>> THEN <<>>
    ELSE InsertDesc(SortDesc(SubSeq(items, 1, Len(items) - 1)), items[Len(items)])

Items(keyed) == [i \in 1..Len(keyed) |-> keyed[i].item]

----------------------------------------------------------------------------
(* dashboard.py fetch_events                                               *)

\* fetch_count = max(limit * 5, 100)
fetch_count(limit) == Max(limit * 5, 100)

\* key=lambda e: float(e.get("volume") or 0)
volume_key(e) == PyFloat(Or(Get(e.volume), Num(0)))

\* The keys of data in order; the first key that raises ends the sort.
RECURSIVE volume_keys(_)
volume_keys(data) ==
    IF data = <<>> THEN Ok(<<>>)
    ELSE LET k == volume_key(Head(data))
         IN  IF k.exc # "none" THEN Raise(k.exc)
             ELSE LET rest == volume_keys(Tail(data))
                  IN  IF rest.exc # "none" THEN rest
                      ELSE Ok(<<[key |-> k.val, item |-> Head(data)]>> \o rest.val)

\* fetch_events(limit) when the tool behaves as r:
\*   r.started     subprocess.run could start PM_BIN (it raises otherwise)
\*   r.returncode  the exit code
\*   r.json        stdout is valid JSON (json.loads raises JSONDecodeError if not)
\*   r.array       the JSON value is an array (data.sort exists)
\*   r.data        the array's events
\* Only json.JSONDecodeError is caught.
fetch_events(limit, r) ==
    IF ~r.started THEN Raise("FileNotFoundError")
    ELSE IF r.returncode # 0 THEN Ok(<<>>)
    ELSE IF ~r.json THEN Ok(<<>>)
    ELSE IF ~r.array THEN Raise("AttributeError")
    ELSE LET keys == volume_keys(r.data)
         IN  IF keys.exc # "none" THEN Raise(keys.exc)
             ELSE Ok(Take(Items(SortDesc(keys.val)), limit))

----------------------------------------------------------------------------
(* dashboard.py top_contenders, server.py _all_contenders                  *)

\* try: prices = json.loads(m.get("outcomePrices") or "[0,1]")
\*      yes = float(prices[0])
\* except (json.JSONDecodeError, IndexError, ValueError): yes = 0.0
parse_yes(m) ==
    LET loaded == JsonLoads(Or(Get(m.outcomePrices), Str("[0,1]")))
        first  == IF loaded.exc = "none" THEN Index0(loaded.val) ELSE loaded
        yes    == IF first.exc = "none" THEN PyFloat(first.val) ELSE first
    IN  IF yes.exc \in {"JSONDecodeError", "IndexError", "ValueError"}
        THEN Ok(0)
        ELSE yes

\* m.get("groupItemTitle") or m.get("question") or "?"
contender_name(m) == Or(Or(Get(m.groupItemTitle), Get(m.question)), Str("?"))

\* m.get("endDateIso") or m.get("endDate") or ""
contender_end(m) == Or(Or(Get(m.endDateIso), Get(m.endDate)), Str(""))

\* The loop over markets: the parsed list, or the first exception that
\* leaves the try block.  withEnd adds _all_contenders' endDate.
RECURSIVE parse_markets(_, _)
parse_markets(markets, withEnd) ==
    IF markets = <<>> THEN Ok(<<>>)
    ELSE LET m   == Head(markets)
             yes == parse_yes(m)
         IN  IF yes.exc # "none" THEN Raise(yes.exc)
             ELSE LET rest == parse_markets(Tail(markets), withEnd)
                      c    == IF withEnd
                              THEN [name |-> contender_name(m), yes |-> yes.val,
                                    delta |-> Get(m.oneDayPriceChange),
                                    endDate |-> contender_end(m)]
                              ELSE [name |-> contender_name(m), yes |-> yes.val,
                                    delta |-> Get(m.oneDayPriceChange)]
                  IN  IF rest.exc # "none" THEN rest
                      ELSE Ok(<<[key |-> yes.val, item |-> c]>> \o rest.val)

\* markets = event.get("markets") or []
event_markets(e) == Or(Get(e.markets), List(<<>>)).xs

top_contenders(e) ==
    LET parsed == parse_markets(event_markets(e), FALSE)
    IN  IF parsed.exc # "none" THEN parsed
        ELSE Ok(Take(Items(SortDesc(parsed.val)), TOP_N_CONTENDERS))

all_contenders(e) ==
    LET parsed == parse_markets(event_markets(e), TRUE)
    IN  IF parsed.exc # "none" THEN parsed
        ELSE Ok(Items(SortDesc(parsed.val)))

----------------------------------------------------------------------------
(* dashboard.py fmt_delta, server.py fmt_delta_plain                       *)

Abs(x) == IF x < 0 THEN -x ELSE x

Flat == [text |-> "flat", tenths |-> 0, direction |-> "flat"]

\* f"{cents:.1f}" for cents = float(delta) * 100 rounds the binary double,
\* not the decimal.  The tenths of a cent shown for a magnitude of m units
\* of 1/Scale: m / 10 rounded to the nearest when m is no half (the double is
\* then nowhere near a tie); when m ends in 5 the double lies just under the
\* tie, just over it, or on it (rounded to the even digit), and HalfDown
\* lists the magnitudes up to Scale, the largest change of a probability,
\* that are shown rounded down.  A half beyond Scale is no input of the
\* model and has no value here.
HalfDown ==
    {15, 25, 45, 55, 95, 115, 125, 185, 195, 215, 225, 255,
     265, 295, 305, 315, 325, 355, 365, 405, 425, 435, 455, 515,
     525, 535, 555, 595, 605, 625, 635, 705, 715, 725, 735, 745,
     755, 765, 785, 825, 835, 865, 885, 895, 905, 925, 935, 945,
     985, 1025, 1035, 1045, 1055, 1085, 1095, 1125, 1135, 1185, 1195, 1205,
     1225, 1235, 1245, 1285, 1325, 1415, 1425, 1435, 1445, 1455, 1465, 1485,
     1495, 1505, 1525, 1535, 1545, 1585, 1625, 1645, 1725, 1735, 1745, 1755,
     1765, 1785, 1795, 1815, 1825, 1845, 1865, 1895, 1915, 1925, 1945, 2025,
     2035, 2045, 2055, 2065, 2085, 2095, 2115, 2125, 2135, 2145, 2165, 2195,
     2215, 2225, 2245, 2295, 2325, 2345, 2355, 2365, 2385, 2395, 2415, 2425,
     2435, 2445, 2465, 2495, 2515, 2525, 2545, 2595, 2625, 2815, 2825, 2835,
     2845, 2855, 2865, 2875, 2885, 2895, 2905, 2915, 2925, 2935, 2945, 2955,
     2965, 2985, 2995, 3005, 3015, 3025, 3035, 3045, 3065, 3095, 3115, 3125,
     3145, 3165, 3195, 3205, 3215, 3225, 3265, 3315, 3325, 3425, 3445, 3455,
     3465, 3485, 3495, 3505, 3515, 3525, 3545, 3555, 3565, 3595, 3605, 3615,
     3625, 3645, 3655, 3665, 3705, 3715, 3725, 3755, 3765, 3805, 3815, 3825,
     3865, 3915, 3925, 3965, 4025, 4065, 4085, 4095, 4105, 4115, 4125, 4135,
     4145, 4155, 4165, 4195, 4205, 4215, 4225, 4245, 4255, 4265, 4305, 4315,
     4325, 4355, 4365, 4405, 4415, 4425, 4455, 4465, 4515, 4525, 4565, 4625,
     4695, 4705, 4715, 4725, 4735, 4745, 4755, 4765, 4795, 4805, 4815, 4825,
     4845, 4855, 4865, 4895, 4905, 4915, 4925, 4955, 4965, 5005, 5015, 5025,
     5035, 5045, 5055, 5065, 5075, 5085, 5095, 5105, 5115, 5125, 5135, 5145,
     5155, 5165, 5175, 5185, 5195, 5205, 5215, 5225, 5235, 5245, 5255, 5265,
     5285, 5295, 5305, 5315, 5325, 5335, 5345, 5355, 5365, 5385, 5395, 5405,
     5415, 5425, 5445, 5455, 5465, 5495, 5505, 5515, 5525, 5555, 5565, 5605,
     5615, 5625, 5655, 5665, 5705, 5715, 5725, 5765, 5815, 5825, 5925, 6025,
     6255, 6265, 6275, 6285, 6295, 6305, 6315, 6325, 6335, 6345, 6355, 6365,
     6375, 6385, 6395, 6405, 6415, 6425, 6435, 6455, 6465, 6485, 6505, 6515,
     6525, 6535, 6555, 6565, 6585, 6605, 6615, 6625, 6635, 6655, 6665, 6685,
     6705, 6725, 6735, 6755, 6785, 6805, 6825, 6835, 6855, 6885, 6905, 6925,
     6935, 6955, 6985, 7005, 7025, 7035, 7055, 7105, 7125, 7155, 7205, 7225,
     7255, 7305, 7325, 7425, 7505, 7515, 7525, 7535, 7545, 7555, 7565, 7585,
     7595, 7605, 7615, 7625, 7635, 7645, 7655, 7665, 7685, 7705, 7715, 7725,
     7735, 7755, 7765, 7785, 7805, 7815, 7825, 7835, 7855, 7865, 7885, 7905,
     7915, 7925, 7935, 7955, 7985, 8005, 8025, 8035, 8055, 8085, 8105, 8125,
     8135, 8155, 8185, 8205, 8225, 8235, 8255, 8285, 8305, 8325, 8355, 8405,
     8425, 8455, 8505, 8525, 8555, 8625, 8725, 8755, 8765, 8785, 8795, 8805,
     8815, 8825, 8835, 8845, 8855, 8865, 8885, 8895, 8905, 8915, 8925, 8935,
     8955, 8965, 8985, 9005, 9015, 9025, 9035, 9055, 9065, 9085, 9105, 9115,
     9125, 9135, 9155, 9165, 9185, 9205, 9225, 9235, 9255, 9285, 9305, 9325,
     9335, 9355, 9385, 9405, 9425, 9435, 9455, 9485, 9505, 9525, 9535, 9555,
     9605, 9625, 9655, 9705, 9725, 9755, 9805, 9825, 9925}

RoundTenths(m) ==
    CASE m % 10 # 5     -> (m + 5) \div 10
      [] m \in HalfDown -> m \div 10
      [] m <= Scale     -> m \div 10 + 1

\* cents = float(delta) * 100 is f / 100 cents for f in units of 1/Scale, so
\* abs(cents) < 0.05 is Abs(f) < 5.  text is the arrow and sign, tenths the
\* number f"{cents:.1f}" shows, in tenths of a cent.  direction is
\* fmt_delta's colour (green = up, red = down) and fmt_delta_plain's
\* "direction".
fmt_delta_of(d) ==
    IF d.t = "none" THEN Ok(Flat)
    ELSE LET f == PyFloat(d)
         IN  IF f.exc \in {"ValueError", "TypeError"} THEN Ok(Flat)
             ELSE IF f.exc # "none" THEN f
             ELSE IF Abs(f.val) < 5 THEN Ok(Flat)
             ELSE Ok([text |-> IF f.val > 0 THEN "up+" ELSE "down",
                      tenths |-> IF f.val > 0 THEN RoundTenths(f.val)
                                 ELSE -RoundTenths(-f.val),
                      direction |-> IF f.val > 0 THEN "up" ELSE "down"])

fmt_delta(d) == fmt_delta_of(d)

fmt_delta_plain(d) == fmt_delta_of(d)

----------------------------------------------------------------------------
(* Inputs of the parsing functions                                         *)

\* Longest upstream event array and longest market list enumerated.
MaxEvents == 2
MaxMarkets == 2

Limits == {1, 2}

\* "volume" of an upstream event: missing, null, a number, numeric text,
\* text that is no number, empty text, a list.
Volumes ==
    {Absent, None, Num(300 * Scale), Str("20"), Str("7"), Str("abc"), Str(""),
     List(<<Num(Scale)>>)}

Titles == <<"A", "B", "C", "D", "E", "F", "G">>

MkEvent(i, v) == [title |-> Str(Titles[i]), volume |-> v, markets |-> Absent]

EventLists ==
    UNION {{[i \in 1..n |-> MkEvent(i, f[i])] : f \in [1..n -> Volumes]} :
           n \in 0..MaxEvents}

NoData == <<>>

Responses ==
    {[started |-> FALSE, returncode |-> 0, json |-> FALSE, array |-> FALSE, data |-> NoData],
     [started |-> TRUE, returncode |-> 1, json |-> FALSE, array |-> FALSE, data |-> NoData],
     [started |-> TRUE, returncode |-> 0, json |-> FALSE, array |-> FALSE, data |-> NoData],
     [started |-> TRUE, returncode |-> 0, json |-> TRUE, array |-> FALSE, data |-> NoData]}
    \cup {[started |-> TRUE, returncode |-> 0, json |-> TRUE, array |-> TRUE, data |-> d] :
          d \in EventLists}

\* "outcomePrices" of a market: missing, null, empty text, JSON arrays of
\* price texts, an empty array, an array of text that is no number, an array
\* holding null, malformed JSON, a JSON number, a list that was never
\* encoded as text.
PriceTexts ==
    {Absent, None, Str(""), Str("[0,1]"),
     Str("[\"0.94\", \"0.06\"]"), Str("[\"0.06\", \"0.94\"]"), Str("[\"0.5\", \"0.5\"]"),
     Str("[]"), Str("[\"abc\"]"), Str("[null]"), Str("[\"0.94\""), Str("0.5"),
     List(<<Num(9400)>>)}

MkMarket(i, prices) ==
    [groupItemTitle |-> IF i = 1 THEN Str(Titles[i]) ELSE Absent,
     question |-> IF i = 2 THEN Absent ELSE Str(Titles[i]),
     outcomePrices |-> prices,
     oneDayPriceChange |-> IF i = 1 THEN Num(100) ELSE None,
     endDateIso |-> Absent,
     endDate |-> IF i = 1 THEN Str("2026-01-01") ELSE Absent]

MarketLists ==
    UNION {{[i \in 1..n |-> MkMarket(i, f[i])] : f \in [1..n -> PriceTexts]} :
           n \in 0..MaxMarkets}

\* Seven well-formed markets: more than TOP_N_CONTENDERS.
ManyMarkets ==
    [i \in 1..7 |-> MkMarket(i, IF i % 2 = 0 THEN Str("[\"0.94\", \"0.06\"]")
                                 ELSE Str("[\"0.5\", \"0.5\"]"))]

Events ==
    {[title |-> Str("A"), volume |-> Str("20"), markets |-> List(ms)] :
        ms \in MarketLists \cup {ManyMarkets}}
    \cup {[title |-> Str("A"), volume |-> Str("20"), markets |-> Absent]}

\* "oneDayPriceChange": null, numbers either side of the 0.05 cent floor,
\* halves that the double rounds down and up, numeric text, text that is
\* no number, a list.
Deltas ==
    {None, Num(100), Num(-200), Num(4), Num(-4), Num(5), Num(30),
     Num(15), Num(25), Num(-25), Num(35), Num(75), Num(-35), Num(2025),
     Str("0.01"), Str("-0.02"), Str("0.0004"), Str("abc"), Str(""), List(<<>>)}

NoResp == [started |-> FALSE, returncode |-> 0, json |-> FALSE, array |-> FALSE, data |-> NoData]
NoEvent == [title |-> Absent, volume |-> Absent, markets |-> Absent]
NoOut == Ok(None)

----------------------------------------------------------------------------
(* Idle values of each group of variables, held by the specifications that *)
(* do not use the group.                                                   *)

NoLayout == [n |-> 0, name_w |-> 0, event_w |-> 0]

LayoutIdle ==
    /\ lpc = "start"
    /\ lay = NoLayout
    /\ cols = <<>>

ParseIdle ==
    /\ ppc = "start"
    /\ resp = NoResp
    /\ plimit = 0
    /\ event = NoEvent
    /\ delta = None
    /\ evOut = NoOut
    /\ contOut = NoOut
    /\ deltaOut = NoOut

\* ---- get_events: the calls, the keys, the clock

\* Number of get_events calls, numbered in the order they start.
NumCalls == 3
Calls == 1..NumCalls

\* The limits requested.
Keys == {10, 20}

\* CACHE_TTL = int(os.environ.get("PM_CACHE_TTL", "30"))
CACHE_TTL == 30

\* The clock advances TickStep seconds at a time, up to MaxTime.
TickStep == 10
MaxTime == 60

NoEntry == [present |-> FALSE, ts |-> 0, data |-> NoData, src |-> 0]
NoRet == [data |-> NoData, src |-> 0]

\* What the upstream tool may do during one fetch: it cannot be started, it
\* exits non-zero, it prints malformed JSON, it prints an array holding an
\* event whose volume is no number, it prints a well-formed array.
CacheResponses ==
    {[started |-> FALSE, returncode |-> 0, json |-> FALSE, array |-> FALSE, data |-> NoData],
     [started |-> TRUE, returncode |-> 1, json |-> FALSE, array |-> FALSE, data |-> NoData],
     [started |-> TRUE, returncode |-> 0, json |-> FALSE, array |-> FALSE, data |-> NoData],
     [started |-> TRUE, returncode |-> 0, json |-> TRUE, array |-> TRUE,
      data |-> <<MkEvent(1, Str("abc"))>>],
     [started |-> TRUE, returncode |-> 0, json |-> TRUE, array |-> TRUE,
      data |-> <<MkEvent(1, Str("7")), MkEvent(2, Str("20"))>>]}

CacheIdle ==
    /\ clock = 0
    /\ cache = [k \in Keys |-> NoEntry]
    /\ locked = FALSE
    /\ waiters = <<>>
    /\ cpc = [p \in Calls |-> "idle"]
    /\ climit = [p \in Calls |-> 0]
    /\ cnow = [p \in Calls |-> 0]
    /\ cret = [p \in Calls |-> NoRet]
    /\ fetched = [p \in Calls |-> FALSE]
    /\ hitAge = [p \in Calls |-> -1]
    /\ fresh = [p \in Calls |-> 0]
    /\ inflight = [p \in Calls |-> 0]
    /\ active = [p \in Calls |-> {}]

----------------------------------------------------------------------------
(* SpecLayout                                                              *)

InitLayout ==
    /\ width \in 0..MaxWidth
    /\ LayoutIdle
    /\ ParseIdle
    /\ CacheIdle

\* A direct call calc_layout(width).
CalcLayout ==
    /\ lpc = "start"
    /\ lay' = calc_layout(width)
    /\ lpc' = "layout"
    /\ UNCHANGED <<width, cols, parseVars, cacheVars>>

\* build_table(events): the layout part (lines 152-175).
BuildTable ==
    /\ lpc = "start"
    /\ lay' = calc_layout(build_table_width(width))
    /\ cols' = build_table_cols(lay')
    /\ lpc' = "table"
    /\ UNCHANGED <<width, parseVars, cacheVars>>

NextLayout == CalcLayout \/ BuildTable

SpecLayout == InitLayout /\ [][NextLayout]_vars

----------------------------------------------------------------------------
(* SpecParse: one call of one of the functions on one input                *)

InitParse ==
    /\ width = 0
    /\ LayoutIdle
    /\ ParseIdle
    /\ CacheIdle

FetchEvents ==
    /\ ppc = "start"
    /\ \E r \in Responses, l \in Limits :
        /\ resp' = r
        /\ plimit' = l
        /\ evOut' = fetch_events(l, r)
    /\ ppc' = "fetch_events"
    /\ UNCHANGED <<event, delta, contOut, deltaOut, layoutVars, cacheVars>>

TopContenders ==
    /\ ppc = "start"
    /\ \E e \in Events :
        /\ event' = e
        /\ contOut' = top_contenders(e)
    /\ ppc' = "top_contenders"
    /\ UNCHANGED <<resp, plimit, delta, evOut, deltaOut, layoutVars, cacheVars>>

AllContenders ==
    /\ ppc = "start"
    /\ \E e \in Events :
        /\ event' = e
        /\ contOut' = all_contenders(e)
    /\ ppc' = "_all_contenders"
    /\ UNCHANGED <<resp, plimit, delta, evOut, deltaOut, layoutVars, cacheVars>>

FmtDelta ==
    /\ ppc = "start"
    /\ \E d \in Deltas :
        /\ delta' = d
        /\ deltaOut' = fmt_delta(d)
    /\ ppc' = "fmt_delta"
    /\ UNCHANGED <<resp, plimit, event, evOut, contOut, layoutVars, cacheVars>>

FmtDeltaPlain ==
    /\ ppc = "start"
    /\ \E d \in Deltas :
        /\ delta' = d
        /\ deltaOut' = fmt_delta_plain(d)
    /\ ppc' = "fmt_delta_plain"
    /\ UNCHANGED <<resp, plimit, event, evOut, contOut, layoutVars, cacheVars>>

NextParse ==
    FetchEvents \/ TopContenders \/ AllContenders \/ FmtDelta \/ FmtDeltaPlain

SpecParse == InitParse /\ [][NextParse]_vars

----------------------------------------------------------------------------
(* SpecCache: server.py get_events, called concurrently on one event loop. *)
(* A step is what a coroutine runs between two suspensions; the fetch runs *)
(* in the executor while the loop runs other coroutines.                   *)

\* Mutant: the age test is turned round.
cache_hit_inverted(entry, now) == entry.present /\ now - entry.ts > CACHE_TTL

\* if limit in _cache: ts, data = _cache[limit]; if now - ts < CACHE_TTL
cache_hit(entry, now) == entry.present /\ now - entry.ts < CACHE_TTL

\* With the lock held: return the cached data (leaving the async with
\* releases the lock), or hand fetch_events to the executor and suspend.
CheckCache(p, k, now) ==
    IF cache_hit(cache[k], now)
    THEN /\ cret' = [cret EXCEPT ![p] = [data |-> cache[k].data, src |-> cache[k].src]]
         /\ cpc' = [cpc EXCEPT ![p] = "done"]
         /\ hitAge' = [hitAge EXCEPT ![p] = clock - cache[k].ts]
         /\ locked' = FALSE
         /\ UNCHANGED fetched
    ELSE /\ cpc' = [cpc EXCEPT ![p] = "fetching"]
         /\ fetched' = [fetched EXCEPT ![p] = TRUE]
         /\ locked' = TRUE
         /\ UNCHANGED <<cret, hitAge>>

InitCache ==
    /\ width = 0
    /\ LayoutIdle
    /\ ParseIdle
    /\ CacheIdle

\* get_events(k) is called: now = time.monotonic(), then Lock.acquire(),
\* which takes a free lock with no waiters at once and otherwise queues.
GetEvents(p, k) ==
    /\ cpc[p] = "idle"
    /\ IF p = 1 THEN TRUE ELSE cpc[p - 1] # "idle"
    /\ climit' = [climit EXCEPT ![p] = k]
    /\ cnow' = [cnow EXCEPT ![p] = clock]
    /\ fresh' = [fresh EXCEPT ![p] =
                    IF cache[k].present /\ clock - cache[k].ts < CACHE_TTL
                    THEN cache[k].src ELSE 0]
    /\ inflight' = [inflight EXCEPT ![p] =
                    IF \E q \in Calls : cpc[q] = "fetching" /\ climit[q] = k
                    THEN CHOOSE q \in Calls : cpc[q] = "fetching" /\ climit[q] = k
                    ELSE 0]
    /\ active' = [active EXCEPT ![p] =
                    {q \in Calls : cpc[q] \in {"waiting", "fetching"} /\ climit[q] = k}]
    /\ IF ~locked /\ waiters = <<>>
       THEN /\ CheckCache(p, k, clock)
            /\ UNCHANGED waiters
       ELSE /\ waiters' = Append(waiters, p)
            /\ cpc' = [cpc EXCEPT ![p] = "waiting"]
            /\ UNCHANGED <<locked, cret, fetched, hitAge>>
    /\ UNCHANGED <<clock, cache, layoutVars, parseVars>>

\* The lock was released and woke its first waiter, which now runs.
Resume(p) ==
    /\ ~locked
    /\ waiters # <<>>
    /\ p = Head(waiters)
    /\ waiters' = Tail(waiters)
    /\ CheckCache(p, climit[p], cnow[p])
    /\ UNCHANGED <<clock, cache, climit, cnow, fresh, inflight, active,
                   layoutVars, parseVars>>

\* The executor finished fetch_events(limit): its result is stored under
\* the caller's now and returned, or its exception leaves get_events; the
\* lock is released either way.
FetchReturn(p) ==
    /\ cpc[p] = "fetching"
    /\ \E r \in CacheResponses :
        LET out == fetch_events(climit[p], r)
        IN  IF out.exc = "none"
            THEN /\ cache' = [cache EXCEPT ![climit[p]] =
                        [present |-> TRUE, ts |-> cnow[p], data |-> out.val, src |-> p]]
                 /\ cret' = [cret EXCEPT ![p] = [data |-> out.val, src |-> p]]
                 /\ cpc' = [cpc EXCEPT ![p] = "done"]
            ELSE /\ cpc' = [cpc EXCEPT ![p] = "raised"]
                 /\ UNCHANGED <<cache, cret>>
    /\ locked' = FALSE
    /\ UNCHANGED <<clock, waiters, climit, cnow, fetched, hitAge, fresh, inflight,
                   active, layoutVars, parseVars>>

\* Time passes.
Tick ==
    /\ clock + TickStep <= MaxTime
    /\ clock' = clock + TickStep
    /\ UNCHANGED <<cache, locked, waiters, cpc, climit, cnow, cret, fetched,
                   hitAge, fresh, inflight, active, layoutVars, parseVars>>

NextCache ==
    \/ \E p \in Calls, k \in Keys : GetEvents(p, k)
    \/ \E p \in Calls : Resume(p)
    \/ \E p \in Calls : FetchReturn(p)
    \/ Tick

SpecCache == InitCache /\ [][NextCache]_vars

----------------------------------------------------------------------------
(* Properties                                                              *)

Finished(p) == cpc[p] \in {"done", "raised"}

\* Through the lock, at most one fetch is in flight at any moment, whatever
\* the keys (holds under SpecCache).
OneFetchInFlight == Cardinality({p \in Calls : cpc[p] = "fetching"}) <= 1

\* C1: for every key at most one fetch_events call is in flight at any
\* moment, and of two concurrent get_events calls for the same key issued
\* less than CACHE_TTL apart, only one invokes fetch_events.
C1_SingleFetchPerKey ==
    /\ \A k \in Keys :
        Cardinality({p \in Calls : cpc[p] = "fetching" /\ climit[p] = k}) <= 1
    /\ \A p, q \in Calls :
        (/\ p \in active[q]
         /\ Finished(p) /\ Finished(q)
         /\ cnow[q] - cnow[p] < CACHE_TTL)
        => ~(fetched[p] /\ fetched[q])

\* C2: a get_events call never waits for the lock while a fetch for a
\* different key is in flight.
C2_NoCrossKeyBlocking ==
    \A p, q \in Calls :
        (cpc[p] = "fetching" /\ cpc[q] = "waiting") => climit[p] = climit[q]

\* C3: a get_events(k) call that starts while a fetch for k is in flight
\* does not invoke fetch_events itself and returns the result of that fetch;
\* stated here for the fetches that return a result.
C3_WaitersShareFetch ==
    \A q \in Calls :
        (/\ inflight[q] # 0
         /\ cpc[inflight[q]] = "done"
         /\ cpc[q] \in {"fetching", "done", "raised"})
        => /\ ~fetched[q]
           /\ cpc[q] = "done"
           /\ cret[q].src = inflight[q]

\* C4: a get_events(k) call that starts while the stored entry for k is
\* younger than CACHE_TTL never invokes fetch_events and returns exactly the
\* result that fetch stored, an empty result included.
C4_FreshEntryServed ==
    \A q \in Calls :
        fresh[q] # 0 =>
            /\ ~fetched[q]
            /\ cpc[q] \in {"waiting", "done"}
            /\ cpc[q] = "done" =>
                /\ cret[q].src = fresh[q]
                /\ cret[q].data = cret[fresh[q]].data

\* C4 witness: call 2 was served, from the cache, the empty result that the
\* failed fetch of call 1 stored.
C4_Witness ==
    /\ fresh[2] = 1
    /\ cpc[2] = "done"
    /\ cret[1].data = <<>>
    /\ cret[2] = cret[1]
    /\ hitAge[2] >= 0

\* C5: calc_layout(W) returns a count in 1..TOP_N_CONTENDERS; when W is at
\* least total_width(1, MIN_NAME_W) = 83 the width recomputed from the
\* returned count and name width is at most W; below 83 the count is 1.
C5_LayoutFits ==
    lpc = "layout" =>
        /\ total_width(1, MIN_NAME_W) = 83
        /\ lay.n \in 1..TOP_N_CONTENDERS
        /\ width >= 83 => total_width(lay.n, lay.name_w) <= width
        /\ width < 83 => lay.n = 1

\* C5 witness: 140 columns hold three contenders with names 11 wide.
C5_Witness ==
    /\ lpc = "layout"
    /\ width = 140
    /\ lay.n = 3
    /\ lay.name_w = 11
    /\ total_width(lay.n, lay.name_w) = 140 - 2

\* C6: when the tool cannot be started, exits non-zero or prints invalid
\* JSON, fetch_events returns an empty list and raises nothing.
C6_FailureReturnsEmpty ==
    (/\ ppc = "fetch_events"
     /\ ~resp.started \/ resp.returncode # 0 \/ ~resp.json)
    => evOut = Ok(<<>>)

\* The values C7 names: the volume an event sorts by (0 when it is missing
\* or no number) and the probability of a market (0 when its outcomePrices
\* cannot be parsed).
DefaultedVolume(e) ==
    LET f == volume_key(e) IN IF f.exc = "none" THEN f.val ELSE 0

DefaultedYes(m) ==
    LET loaded == JsonLoads(Or(Get(m.outcomePrices), Str("[0,1]")))
        first  == IF loaded.exc = "none" THEN Index0(loaded.val) ELSE loaded
        yes    == IF first.exc = "none" THEN PyFloat(first.val) ELSE first
    IN  IF yes.exc = "none" THEN yes.val ELSE 0

\* C7: a field that cannot be parsed gets its default and no exception
\* leaves fetch_events (on an array of events), top_contenders,
\* _all_contenders, fmt_delta or fmt_delta_plain: a volume that is missing
\* or no number sorts as 0, outcomePrices that are malformed, empty or not
\* numeric give probability 0, a change that is null or unparsable is flat.
C7_FieldDefaults ==
    /\ (ppc = "fetch_events" /\ resp.started /\ resp.returncode = 0 /\ resp.array)
        => /\ evOut.exc = "none"
           /\ Len(evOut.val) = Min(plimit, Len(resp.data))
           /\ \A i, j \in 1..Len(evOut.val) :
                i < j => DefaultedVolume(evOut.val[i]) >= DefaultedVolume(evOut.val[j])
    /\ ppc \in {"top_contenders", "_all_contenders"}
        => /\ contOut.exc = "none"
           /\ Len(event_markets(event)) <= TOP_N_CONTENDERS
                => /\ Len(contOut.val) = Len(event_markets(event))
                   /\ \A i \in 1..Len(event_markets(event)) :
                        \E j \in 1..Len(contOut.val) :
                            /\ contOut.val[j].name = contender_name(event_markets(event)[i])
                            /\ contOut.val[j].yes = DefaultedYes(event_markets(event)[i])
    /\ ppc \in {"fmt_delta", "fmt_delta_plain"}
        => /\ deltaOut.exc = "none"
           /\ (delta.t # "num" /\ PyFloat(delta).exc # "none") => deltaOut.val = Flat

\* C8: the count is the largest k in 1..5 whose total width at the minimum
\* name width fits W, or 1 when none fits; the name width is MIN_NAME_W plus
\* the floor of the leftover over the count; when a count fits, the width
\* left unused is in 0..n-1.
C8_LayoutExact ==
    lpc = "layout" =>
        LET fits == {k \in 1..TOP_N_CONTENDERS :
                        FIXED_COLS_W + k * (MIN_NAME_W + PRICE_W + DELTA_W)
                            + (3 + 3 * k) + 2 <= width}
            n    == IF fits = {} THEN 1
                    ELSE CHOOSE k \in fits : \A j \in fits : j <= k
            left == width - total_width(n, MIN_NAME_W)
            q    == lay.name_w - MIN_NAME_W
        IN  /\ lay.n = n
            /\ q * n <= left
            /\ left < (q + 1) * n
            /\ fits # {} => (width - total_width(n, lay.name_w)) \in 0..(n - 1)

\* C8 witness: 199 columns hold five contenders, names 12 wide, 4 unused.
C8_Witness ==
    /\ lpc = "layout"
    /\ width = 199
    /\ lay.n = 5
    /\ lay.name_w = 12
    /\ width - total_width(lay.n, lay.name_w) = 4

\* C9: the name width calc_layout returns, and every column width
\* build_table passes on, is at least MIN_NAME_W and so positive.
C9_NameWidthAtLeastMin ==
    lpc # "start" =>
        /\ lay.name_w >= MIN_NAME_W
        /\ \A i \in 1..Len(cols) : cols[i] > 0

\* C10: a call served from the cache reads an entry whose age, at the
\* moment it is read under the lock, is below CACHE_TTL.
C10_HitYoungerThanTTL ==
    \A p \in Calls : hitAge[p] < CACHE_TTL

====
